---- MODULE Spec2Model ----
(***************************************************************************)
(* The output-time scheduler of terrainbento's GenericOutputWriter         *)
(* (terrainbento/output_writers/generic_output_writer.py).                 *)
(*                                                                         *)
(* One writer is modelled.  Times are finite floats; the code only         *)
(* compares them with each other, with the stop time and with zero, so     *)
(* they are written as integers counting tenths of a time unit (1.0 is     *)
(* 10, 0.9 is 9, 100.0 is 1000).  A value of the times iterator is a       *)
(* record: a float, a non-float (the integer 1), or the value None.        *)
(***************************************************************************)
EXTENDS Integers, Sequences, FiniteSets, TLC

(* ---------------- bounds of the model ---------------- *)
MaxLen == 2      \* longest enumerated times source
MaxTime == 2     \* largest enumerated time and stop time
MaxCalls == 5    \* advance_iter calls followed in one behaviour
MaxUnregisteredCalls == 2 \* of them, calls made before registration
MaxRegistrations == 2 \* register_times_iter calls followed in one behaviour
MaxPublicCalls == 2   \* advance_iter calls among other public operations
MaxWriters == 3       \* writers constructed in one process
MaxRuns == 2          \* run_one_step calls followed on one adapter

(* ---------------- values ---------------- *)
None == <<>>
Some(x) == <<x>>

Fl(n) == [kind |-> "float", v |-> n]
IntVal(n) == [kind |-> "int", v |-> n]
NoneItem == [kind |-> "None", v |-> 0]

Items == {Fl(t) : t \in 0..MaxTime} \cup {IntVal(1), NoneItem}

SeqsUpTo(S, n) == UNION {[1..k -> S] : k \in 0..n}

(* A times iterator: the values it yields, whether it repeats them for    *)
(* ever (itertools.cycle, an infinite source) and the next position.      *)
Iter(items, cyclic) == [items |-> items, cyclic |-> cyclic, pos |-> 1]

(* The sources of spec.md section 8, in tenths.                           *)
SkipSource == <<Fl(10), Fl(20), Fl(15), Fl(50)>>
FiveRegressions == <<Fl(10), Fl(9), Fl(8), Fl(7), Fl(6), Fl(5)>>
SixRegressions == <<Fl(10), Fl(9), Fl(8), Fl(7), Fl(6), Fl(5), Fl(4)>>
OvershootSource == <<Fl(1000)>>
ExampleStop == 100

(* three skips in each of two calls: 0.5 three times after 1.0, then 1.0 *)
(* three times after 2.0                                                  *)
SpreadSkips ==
    <<Fl(10), Fl(5), Fl(5), Fl(5), Fl(20), Fl(10), Fl(10), Fl(10), Fl(30)>>

(* six skips in one call, which raises, then three skips and a larger     *)
(* value for the call after it                                            *)
ResumeSource ==
    <<Fl(10), Fl(5), Fl(5), Fl(5), Fl(5), Fl(5), Fl(5), Fl(5), Fl(5), Fl(5),
      Fl(20)>>

ExampleSources ==
    {Iter(s, FALSE) : s \in {SkipSource, FiveRegressions, SixRegressions,
                             OvershootSource}}

Sources ==
    {Iter(s, c) : s \in SeqsUpTo(Items, MaxLen), c \in BOOLEAN}
        \cup ExampleSources
        \cup {Iter(SpreadSkips, FALSE), Iter(ResumeSource, FALSE)}

StopTimes == (-1..MaxTime) \cup {ExampleStop}

(* ---------------- state ---------------- *)
VARIABLES
    arg_save_first_timestep, \* __init__'s save_first_timestep argument
    save_first_timestep,     \* self._save_first_timestep
    save_last_timestep,      \* self._save_last_timestep
    stop,                    \* self.model.clock.stop
    times_iter,              \* self._times_iter: None or Some(iterator)
    next_output_time,        \* self._next_output_time: None or Some(t)
    prev_output_time,        \* self._prev_output_time: None or Some(t)
    is_exhausted,            \* self._is_exhausted
    output_filepaths,        \* self._output_filepaths
    calls,                   \* what each advance_iter call so far did
    registrations,           \* how many register_times_iter calls were made
    ran,                     \* the output times run_one_step has written at
    removed,                 \* the files delete_output_files took off the disk
    id_iter,                 \* GenericOutputWriter._id_iter: its next value
    writers                  \* the writers constructed in this process

vars == <<arg_save_first_timestep, save_first_timestep, save_last_timestep,
          stop, times_iter, next_output_time, prev_output_time,
          is_exhausted, output_filepaths, calls, registrations, ran,
          removed, id_iter, writers>>

(* ---------------- the times iterator ---------------- *)
(* next(self._times_iter, None): the value and the advanced iterator.     *)
(* A finished iterator gives None and stays finished.                     *)
IterNext(it) ==
    IF Len(it.items) = 0 \/ it.pos > Len(it.items)
    THEN [item |-> NoneItem, it |-> it]
    ELSE [item |-> it.items[it.pos],
          it |-> [it EXCEPT !.pos = IF it.cyclic
                                    THEN (it.pos % Len(it.items)) + 1
                                    ELSE it.pos + 1]]

(* ---------------- _advance_iter_recursive ---------------- *)
RecursionLimit == 5
FirstTime == 0

(* What one resolution gives back: kind is "time", "None",                *)
(* "RecursionError" or "AssertionError"; via tells which branch produced  *)
(* a time or a None; pulls are the values taken from the iterator and     *)
(* warns the message of each OutputIteratorSkipWarning.                    *)
Outcome(kind, v, via, sf, it, pulls, warns) ==
    [kind |-> kind, v |-> v, via |-> via, save_first |-> sf, it |-> it,
     pulls |-> pulls, warns |-> warns]

ConsumeFirstNever(sf) == sf
(* the save_first_timestep branch clears the flag *)
ConsumeFirst(sf) == FALSE

ExhaustedRuleNever(save_last, prev_time, model_stop_time) == None
(* the iterator gave None: the last output is forced at the stop time *)
ExhaustedRule(save_last, prev_time, model_stop_time) ==
    IF save_last /\ (prev_time = None \/ prev_time[1] < model_stop_time)
    THEN Some(model_stop_time)
    ELSE None

OvershootRuleNever(save_last, prev_time, model_stop_time) == None
OvershootRuleAlways(save_last, prev_time, model_stop_time) ==
    IF prev_time = None \/ prev_time[1] < model_stop_time
    THEN Some(model_stop_time)
    ELSE None
(* the iterator went past the stop time *)
OvershootRule(save_last, prev_time, model_stop_time) ==
    IF save_last /\ (prev_time = None \/ prev_time[1] < model_stop_time)
    THEN Some(model_stop_time)
    ELSE None

IsSkipStrict(prev_time, next_time) ==
    prev_time # None /\ prev_time[1] > next_time
IsSkipNever(prev_time, next_time) == FALSE
(* next_time does not pass the previous output time *)
IsSkip(prev_time, next_time) ==
    prev_time # None /\ prev_time[1] >= next_time

CanRetryOneLess(recursion_counter) == recursion_counter > 1
CanRetryOneMore(recursion_counter) == recursion_counter >= 0
CanRetry(recursion_counter) == recursion_counter > 0

(* OutputIteratorSkipWarning.get_message: the f-string, piece by piece *)
GetMessage(next_time, prev_time) ==
    <<"Next output time ", next_time, " is <= ", "previous output time ",
      prev_time, ". Skipping...">>

IsFloatOrInt(x) == x.kind \in {"float", "int"}
(* isinstance(next_time, float) *)
IsFloat(x) == x.kind = "float"

ShouldWarnAlways(prev_time, next_time) == TRUE
ShouldWarnNever(prev_time, next_time) == FALSE
(* no warning when both times are zero *)
ShouldWarn(prev_time, next_time) ==
    ~(prev_time[1] = 0 /\ next_time = 0)

RECURSIVE advance_iter_recursive(_, _, _, _, _, _)
advance_iter_recursive(recursion_counter, sf, it, prev_time, pulls, warns) ==
    IF sf
    THEN Outcome("time", FirstTime, "first", ConsumeFirst(sf), it, pulls,
                 warns)
    ELSE
      LET r == IterNext(it)
          next_time == r.item
          got == Append(pulls, next_time)
          model_stop_time == stop
      IN
      IF next_time.kind = "None"
      THEN LET t == ExhaustedRule(save_last_timestep, prev_time,
                                  model_stop_time)
           IN IF t # None
              THEN Outcome("time", t[1], "forced", sf, r.it, got, warns)
              ELSE Outcome("None", 0, "source", sf, r.it, got, warns)
      ELSE IF ~IsFloat(next_time)
      THEN Outcome("AssertionError", 0, "float", sf, r.it, got, warns)
      ELSE IF next_time.v > model_stop_time
      THEN LET t == OvershootRule(save_last_timestep, prev_time,
                                  model_stop_time)
           IN IF t # None
              THEN Outcome("time", t[1], "forced", sf, r.it, got, warns)
              ELSE Outcome("None", 0, "source", sf, r.it, got, warns)
      ELSE IF IsSkip(prev_time, next_time.v)
      THEN IF CanRetry(recursion_counter)
           THEN advance_iter_recursive(
                    recursion_counter - 1, sf, r.it, prev_time, got,
                    IF ShouldWarn(prev_time, next_time.v)
                    THEN Append(warns,
                                GetMessage(next_time.v, prev_time[1]))
                    ELSE warns)
           ELSE Outcome("RecursionError", 0, "skips", sf, r.it, got, warns)
      ELSE Outcome("time", next_time.v, "source", sf, r.it, got, warns)

(* ---------------- advance_iter ---------------- *)
RECURSIVE SkipsSoFar(_)
SkipsSoFar(cs) ==
    IF cs = <<>> THEN 0
    ELSE SkipsSoFar(Tail(cs))
            + (IF Head(cs).pulls = <<>> THEN 0
               ELSE Len(Head(cs).pulls)
                       - (IF Head(cs).kind = "RecursionError" THEN 0 ELSE 1))

InitialBudgetShared(cs) ==
    IF SkipsSoFar(cs) >= RecursionLimit THEN 0
    ELSE RecursionLimit - SkipsSoFar(cs)
(* every call starts _advance_iter_recursive with its default             *)
(* recursion_counter, whatever earlier calls have skipped                 *)
InitialBudget(cs) == RecursionLimit

AlreadyExhaustedNever(exhausted) == FALSE
AlreadyExhausted(exhausted) == exhausted

StopReachedNever(had_next, next_time, model_stop_time) == FALSE
(* the pending output time was the stop time *)
StopReached(had_next, next_time, model_stop_time) ==
    had_next /\ next_time[1] = model_stop_time

NotRegisteredNever(it) == FALSE
(* no times iterator has been registered *)
NotRegistered(it) == it = None

PendingInRangeAlways(had_next, next_time, model_stop_time) == TRUE
(* assert self._next_output_time <= model_stop_time *)
PendingInRange(had_next, next_time, model_stop_time) ==
    had_next => next_time[1] <= model_stop_time

CommitNever(had_next, next_time, prev_time) == prev_time
(* the pending output time becomes the previous output time *)
Commit(had_next, next_time, prev_time) ==
    IF had_next THEN next_time ELSE prev_time

BecomesExhaustedNever(exhausted, kind) == exhausted
(* a call that resolves to None exhausts the writer *)
BecomesExhausted(exhausted, kind) == exhausted \/ kind = "None"

(* The state advance_iter leaves and the record of the call.  An error    *)
(* keeps what was assigned before it was raised.                          *)
Left(o, nxt, prv, exh) ==
    [save_first |-> o.save_first, it |-> o.it, nxt |-> nxt, prv |-> prv,
     exh |-> exh,
     call |-> [kind |-> o.kind, v |-> o.v, via |-> o.via,
               pulls |-> o.pulls, warns |-> o.warns, prev |-> prv,
               pending |-> next_output_time, it0 |-> times_iter,
               prev0 |-> prev_output_time]]

advance_iter ==
    LET it == IF times_iter = None THEN Iter(<<>>, FALSE)
              ELSE times_iter[1]
        same(kind, via) ==
            Left(Outcome(kind, 0, via, save_first_timestep, it, <<>>, <<>>),
                 next_output_time, prev_output_time, is_exhausted)
    IN
    IF NotRegistered(times_iter)
    THEN same("AssertionError", "unregistered")
    ELSE IF AlreadyExhausted(is_exhausted)
    THEN IF next_output_time = None
         THEN same("None", "exhausted")
         ELSE same("AssertionError", "exhausted")
    ELSE
      LET had_next == next_output_time # None
          model_stop_time == stop
      IN
      IF ~PendingInRange(had_next, next_output_time, model_stop_time)
      THEN same("AssertionError", "stop")
      ELSE
        LET prv == Commit(had_next, next_output_time, prev_output_time)
            o == IF StopReached(had_next, next_output_time, model_stop_time)
                 THEN Outcome("None", 0, "stop", save_first_timestep, it,
                              <<>>, <<>>)
                 ELSE advance_iter_recursive(InitialBudget(calls),
                          save_first_timestep, it, prv, <<>>, <<>>)
        IN
        IF o.kind \in {"RecursionError", "AssertionError"}
        THEN Left(o, next_output_time, prv, is_exhausted)
        ELSE Left(o, IF o.kind = "None" THEN None ELSE Some(o.v), prv,
                  BecomesExhausted(is_exhausted, o.kind))

(* ---------------- actions ---------------- *)
WriterClasses ==
    {"GenericOutputWriter", "StaticIntervalOutputClassAdapter",
     "StaticIntervalOutputFunctionAdapter"}

(* GenericOutputWriter.__init__ takes the next id; the class adapter then *)
(* makes its one instance of ow_class, the function adapter keeps         *)
(* ow_function.  runs counts the run_one_step calls made on the writer,   *)
(* forwarded lists the calls it made on what it wraps.                    *)
NewWriter(cls, id) ==
    [cls |-> cls, id |-> id,
     instances |-> IF cls = "StaticIntervalOutputClassAdapter" THEN 1 ELSE 0,
     runs |-> 0, forwarded |-> <<>>]

(* the writer whose scheduler and registry are followed is the first one  *)
(* constructed in the process                                              *)
FirstWriter(cls) ==
    /\ id_iter = 1
    /\ writers = <<NewWriter(cls, 0)>>

Constructed ==
    /\ arg_save_first_timestep \in BOOLEAN
    /\ save_first_timestep = arg_save_first_timestep
    /\ save_last_timestep \in BOOLEAN
    /\ stop \in StopTimes
    /\ times_iter = None
    /\ next_output_time = None
    /\ prev_output_time = None
    /\ is_exhausted = FALSE
    /\ output_filepaths = <<>>
    /\ removed = {}
    /\ calls = <<>>
    /\ registrations = 0
    /\ ran = <<>>

Init == FirstWriter("GenericOutputWriter") /\ Constructed

config == <<arg_save_first_timestep, save_last_timestep, stop>>
process == <<id_iter, writers>>
files == <<output_filepaths, removed>>

RegisterTimesIterRevive(src) ==
    /\ times_iter' = Some(src)
    /\ registrations' = registrations + 1
    /\ is_exhausted' = FALSE
    /\ UNCHANGED <<config, process, save_first_timestep, next_output_time,
                   prev_output_time, files, calls, ran>>
RegisterTimesIter(src) ==
    /\ times_iter' = Some(src)
    /\ registrations' = registrations + 1
    /\ UNCHANGED <<config, process, save_first_timestep, next_output_time,
                   prev_output_time, is_exhausted, files, calls,
                   ran>>

(* what one advance_iter call assigns *)
AdvanceIterEffect ==
    /\ Len(calls) < MaxCalls
    /\ times_iter = None => Len(calls) < MaxUnregisteredCalls
    /\ LET a == advance_iter
       IN /\ save_first_timestep' = a.save_first
          /\ times_iter' = IF times_iter = None THEN None ELSE Some(a.it)
          /\ next_output_time' = a.nxt
          /\ prev_output_time' = a.prv
          /\ is_exhausted' = a.exh
          /\ calls' = Append(calls, a.call)
    /\ UNCHANGED <<config, process, files, registrations>>

AdvanceIter == AdvanceIterEffect /\ UNCHANGED ran

(* The inheriting class registers its iterator once, in its constructor.  *)
Register == \E src \in Sources : times_iter = None /\ RegisterTimesIter(src)

Next == Register \/ AdvanceIter

Spec == Init /\ [][Next]_vars

(* ---------------- run_one_step and the file registry ---------------- *)
scheduler == <<save_first_timestep, times_iter, next_output_time,
               prev_output_time, is_exhausted, calls, registrations, ran>>

(* The base class leaves run_one_step to the inheriting class.            *)
RunOneStep ==
    UNCHANGED <<config, process, scheduler, files>>

(* A file path is the sequence of its characters.                         *)
(* "a.nc" has the extension "nc"; ".nc" is a file name with no extension *)
Paths == {<<"a", ".", "n", "c">>, <<".", "n", "c">>}
Extensions == {None, Some(<<"n", "c">>), Some(<<>>)}
(* what os.remove does: it removes the file or raises an OSError *)
OSErrors == {"PermissionError", "FileNotFoundError"}
RemoveOutcomes == {"removed"} \cup OSErrors

ToleratedAlways(error, windows) == TRUE
(* except WindowsError: on Windows the name is OSError itself; elsewhere  *)
(* the name is not defined, the handler raises NameError and nothing is   *)
(* caught                                                                  *)
Tolerated(error, windows) == windows /\ error \in OSErrors

LastIndexOf(path, ch) ==
    LET at == {i \in 1..Len(path) : path[i] = ch}
    IN IF at = {} THEN 0 ELSE CHOOSE i \in at : \A j \in at : j <= i

(* os.path.splitext(filepath)[1][1:]: what follows the last dot of the    *)
(* file name, leading dots of the file name not counting                  *)
FileExt(filepath) ==
    LET sep == LastIndexOf(filepath, "/")
        dot == LastIndexOf(filepath, ".")
    IN IF dot > sep /\ \E i \in (sep + 1)..(dot - 1) : filepath[i] # "."
       THEN SubSeq(filepath, dot + 1, Len(filepath))
       ELSE <<>>

Matches(filepath, only_extension) ==
    only_extension = None \/ FileExt(filepath) = only_extension[1]

is_file_registered(filepath) ==
    \E i \in 1..Len(output_filepaths) : output_filepaths[i] = filepath

(* is_file_registered and get_output_filepaths only give a value back    *)
IsFileRegistered(filepath) ==
    /\ is_file_registered(filepath) \in BOOLEAN
    /\ UNCHANGED <<config, process, scheduler, files>>

RegisterOutputFilepathAlways(filepath) ==
    /\ output_filepaths' = Append(output_filepaths, filepath)
    /\ removed' = removed \ {filepath}
    /\ UNCHANGED <<config, process, scheduler>>
(* the caller registers a file it has just created *)
RegisterOutputFilepath(filepath) ==
    /\ output_filepaths' = IF ~is_file_registered(filepath)
                           THEN Append(output_filepaths, filepath)
                           ELSE output_filepaths
    /\ removed' = removed \ {filepath}
    /\ UNCHANGED <<config, process, scheduler>>

get_output_filepaths(only_extension) ==
    SelectSeq(output_filepaths, LAMBDA f : Matches(f, only_extension))

GetOutputFilepaths(only_extension) ==
    /\ Len(get_output_filepaths(only_extension)) <= Len(output_filepaths)
    /\ UNCHANGED <<config, process, scheduler, files>>

(* The loop of delete_output_files over the files left to visit: what     *)
(* os.remove does to each file is given by outcome, and windows tells     *)
(* whether the process runs on Windows.  An error that is not caught      *)
(* leaves the loop.                                                        *)
RECURSIVE delete_loop(_, _, _, _, _, _)
delete_loop(filepaths, only_extension, outcome, windows, keep_filepaths, gone) ==
    IF filepaths = <<>>
    THEN [raised |-> FALSE, keep |-> keep_filepaths, gone |-> gone]
    ELSE LET filepath == Head(filepaths)
         IN IF Matches(filepath, only_extension)
            THEN IF outcome[filepath] = "removed"
                 THEN delete_loop(Tail(filepaths), only_extension, outcome,
                                  windows, keep_filepaths,
                                  gone \cup {filepath})
                 ELSE IF Tolerated(outcome[filepath], windows)
                 THEN delete_loop(Tail(filepaths), only_extension, outcome,
                                  windows, Append(keep_filepaths, filepath),
                                  gone)
                 ELSE [raised |-> TRUE, keep |-> keep_filepaths,
                       gone |-> gone]
            ELSE delete_loop(Tail(filepaths), only_extension, outcome,
                             windows, Append(keep_filepaths, filepath), gone)

(* the registry is assigned after the loop, so not when an error left it *)
DeleteOutputFiles(only_extension, outcome, windows) ==
    /\ LET d == delete_loop(output_filepaths, only_extension, outcome,
                            windows, <<>>, {})
       IN /\ output_filepaths' = IF d.raised THEN output_filepaths
                                 ELSE d.keep
          /\ removed' = removed \cup d.gone
    /\ UNCHANGED <<config, process, scheduler>>

SharesRegistryAlways(only_extension) == TRUE
(* get_output_filepaths builds a new list (return_filepaths = []), for    *)
(* every filter: the list it returns is never the registry's own list     *)
SharesRegistry(only_extension) == FALSE

(* the caller appends a path to a list get_output_filepaths returned *)
ChangeReturnedList(only_extension, filepath) ==
    /\ output_filepaths' = IF SharesRegistry(only_extension)
                           THEN Append(output_filepaths, filepath)
                           ELSE output_filepaths
    /\ UNCHANGED <<config, process, scheduler, removed>>

(* the next_output_time and prev_output_time properties only give a      *)
(* value back                                                             *)
ReadNextOutputTime ==
    /\ Len(next_output_time) <= 1
    /\ UNCHANGED <<config, process, scheduler, files>>

ReadPrevOutputTime ==
    /\ Len(prev_output_time) <= 1
    /\ UNCHANGED <<config, process, scheduler, files>>

(* ---------------- any sequence of public operations ---------------- *)
PublicSources ==
    {Iter(<<>>, FALSE), Iter(<<Fl(1)>>, FALSE), Iter(<<Fl(1), Fl(0)>>, TRUE)}

RegisterAgain ==
    \E src \in PublicSources :
        registrations < MaxRegistrations /\ RegisterTimesIter(src)

FileOps ==
    \/ \E f \in Paths : RegisterOutputFilepath(f)
    \/ \E f \in Paths : IsFileRegistered(f)
    \/ \E e \in Extensions : GetOutputFilepaths(e)
    \/ \E e \in Extensions, f \in Paths : ChangeReturnedList(e, f)
    \/ \E e \in Extensions, windows \in BOOLEAN :
          \E outcome \in [{f \in Paths : is_file_registered(f)
                                            /\ Matches(f, e)}
                              -> RemoveOutcomes] :
              DeleteOutputFiles(e, outcome, windows)

AdvanceAgain == Len(calls) < MaxPublicCalls /\ AdvanceIter

Reads == ReadNextOutputTime \/ ReadPrevOutputTime

NextPublic ==
    RegisterAgain \/ AdvanceAgain \/ RunOneStep \/ Reads \/ FileOps

SpecPublic == Init /\ [][NextPublic]_vars

(* a writer used for its file registry only *)
NextFiles == FileOps

SpecFiles == Init /\ [][NextFiles]_vars

(* ---------------- the writers of one process ---------------- *)
NextIdStuck(n) == n
(* itertools.count(): next() gives the value and steps by one *)
NextId(n) == n + 1

Construct(cls) ==
    /\ Len(writers) < MaxWriters
    /\ writers' = Append(writers, NewWriter(cls, id_iter))
    /\ id_iter' = NextId(id_iter)
    /\ UNCHANGED <<config, scheduler, files>>

AdapterClasses == WriterClasses \ {"GenericOutputWriter"}

(* The adapters' constructors call StaticIntervalOutputWriter.__init__;   *)
(* spec.md section 3 gives every writer its id at construction from the   *)
(* one shared counter, so that call is taken to reach                     *)
(* GenericOutputWriter.__init__.                                           *)
ConstructAdapter(cls) == cls \in AdapterClasses /\ Construct(cls)

ConstructWriter == Construct("GenericOutputWriter")

InitWriters == (\E cls \in WriterClasses : FirstWriter(cls)) /\ Constructed

NextWriters ==
    ConstructWriter \/ \E cls \in AdapterClasses : ConstructAdapter(cls)

SpecWriters == InitWriters /\ [][NextWriters]_vars

(* ---------------- the adapters' run_one_step ---------------- *)
ForwardNever(w) == w.forwarded
ForwardTwice(w) ==
    w.forwarded \o <<[to |-> "ow_function", args |-> <<"model">>],
                     [to |-> "ow_function", args |-> <<"model">>]>>
(* self.ow_class.run_one_step() on the instance made at construction,     *)
(* or self.ow_function(self.model)                                         *)
Forward(w) ==
    Append(w.forwarded,
           IF w.cls = "StaticIntervalOutputClassAdapter"
           THEN [to |-> "ow_class instance", n |-> w.instances,
                 args |-> <<>>]
           ELSE [to |-> "ow_function", args |-> <<"model">>])

AdapterRunOneStep(i) ==
    /\ writers[i].cls \in AdapterClasses
    /\ writers[i].runs < MaxRuns
    /\ writers' = [writers EXCEPT ![i] =
                      [@ EXCEPT !.runs = @ + 1,
                                !.forwarded = Forward(writers[i])]]
    /\ UNCHANGED <<config, id_iter, scheduler, files>>

InitAdapter == (\E cls \in AdapterClasses : FirstWriter(cls)) /\ Constructed

NextAdapter == RegisterAgain \/ AdvanceAgain \/ AdapterRunOneStep(1)

SpecAdapter == InitAdapter /\ [][NextAdapter]_vars

(* ---------------- the simulation driver ---------------- *)
(* The driver's loop is described in spec.md (sections 2, 5 and 7): it    *)
(* advances each writer once before the run; whenever a writer's          *)
(* next_output_time has been reached it calls run_one_step and then       *)
(* advance_iter; an error of advance_iter aborts the run.                 *)
Aborted == \E k \in 1..Len(calls) :
               calls[k].kind \in {"RecursionError", "AssertionError"}

DriverStart ==
    /\ times_iter # None
    /\ calls = <<>>
    /\ AdvanceIter

DriverStep ==
    /\ calls # <<>>
    /\ ~Aborted
    /\ next_output_time # None
    /\ ran' = Append(ran, next_output_time[1])
    /\ AdvanceIterEffect

NextDriver == Register \/ DriverStart \/ DriverStep

SpecDriver == Init /\ [][NextDriver]_vars

(* ======================================================================= *)
(* Properties                                                              *)
(* ======================================================================= *)
Last(s) == s[Len(s)]
Calls == 1..Len(calls)

(* the non-None values advance_iter has returned, in order *)
TimeCalls == SelectSeq(calls, LAMBDA c : c.kind = "time")
Returned == [i \in 1..Len(TimeCalls) |-> TimeCalls[i].v]

RECURSIVE AllWarnsOf(_)
AllWarnsOf(cs) ==
    IF cs = <<>> THEN <<>> ELSE AllWarnsOf(SubSeq(cs, 1, Len(cs) - 1)) \o Last(cs).warns
AllWarns == AllWarnsOf(calls)

(* the next n values an iterator would yield *)
RECURSIVE Yields(_, _)
Yields(it, n) ==
    IF n = 0 THEN <<>>
    ELSE LET r == IterNext(it) IN <<r.item>> \o Yields(r.it, n - 1)

Registered(items) ==
    times_iter # None /\ times_iter[1].items = items /\ ~times_iter[1].cyclic

IsPrefix(s, t) == Len(s) <= Len(t) /\ s = SubSeq(t, 1, Len(s))

(* C1: the non-None values advance_iter returns are strictly increasing   *)
(* in call order: non-decreasing, and no value is returned twice.         *)
C1_StrictlyIncreasing ==
    \A i, j \in 1..Len(Returned) : i < j => Returned[i] < Returned[j]

(* three times were returned and one of them was found after a skip *)
C1_Witness ==
    /\ Len(Returned) >= 3
    /\ \E k \in Calls : /\ calls[k].kind = "time"
                        /\ calls[k].via = "source"
                        /\ Len(calls[k].pulls) >= 2

(* the last value of a finite source that does not exceed the stop time   *)
(* exists and is strictly less than the stop time                         *)
LastInRangeBelowStop(it) ==
    /\ ~it.cyclic
    /\ \E i \in 1..Len(it.items) :
          /\ it.items[i].kind = "float"
          /\ it.items[i].v < stop
          /\ \A j \in (i + 1)..Len(it.items) :
                ~(it.items[j].kind = "float" /\ it.items[j].v <= stop)

(* C2: with save_last_timestep true and a source whose last in-range      *)
(* value is strictly less than stop_time, the final non-None value         *)
(* returned before the writer exhausts is stop_time.                       *)
C2_ForcedFinalOutput ==
    (/\ save_last_timestep
     /\ times_iter # None
     /\ LastInRangeBelowStop(times_iter[1])
     /\ is_exhausted)
        => (Returned # <<>> /\ Last(Returned) = stop)

(* such a writer ran out of source values, was given the stop time and    *)
(* exhausted                                                               *)
C2_Witness ==
    /\ save_last_timestep
    /\ times_iter # None
    /\ LastInRangeBelowStop(times_iter[1])
    /\ is_exhausted
    /\ \E k \in Calls : /\ calls[k].via = "forced"
                        /\ Last(calls[k].pulls) = NoneItem
                        /\ calls[k].prev # None

(* C3: with save_last_timestep true the writer only exhausts right after  *)
(* returning stop_time: a call returns None only if the call before it    *)
(* returned stop_time (or None), and in an exhausted state the last        *)
(* non-None value returned is stop_time.                                   *)
C3_ExhaustsOnlyAfterStop ==
    save_last_timestep =>
        /\ is_exhausted => (Returned # <<>> /\ Last(Returned) = stop)
        /\ \A k \in Calls :
              calls[k].kind = "None" =>
                  /\ k > 1
                  /\ \/ calls[k - 1].kind = "None"
                     \/ calls[k - 1].kind = "time" /\ calls[k - 1].v = stop

(* the source overshot the stop time on its first value and the writer    *)
(* exhausted                                                               *)
C3_Witness ==
    /\ save_last_timestep
    /\ is_exhausted
    /\ \E k \in Calls : /\ calls[k].via = "forced"
                        /\ calls[k].prev = None
                        /\ Len(calls[k].pulls) = 1
                        /\ calls[k].pulls[1].kind = "float"
                        /\ calls[k].pulls[1].v > stop

(* C4: when the source itself yields stop_time and advance_iter returns   *)
(* it, the next call returns None and exhausts the writer, and stop_time   *)
(* is returned by no other call.                                           *)
C4_NoDoubleStopTime ==
    \A k \in Calls :
        (calls[k].kind = "time" /\ calls[k].via = "source"
            /\ calls[k].v = stop) =>
            /\ k < Len(calls) => (calls[k + 1].kind = "None" /\ is_exhausted)
            /\ \A j \in Calls :
                  (calls[j].kind = "time" /\ calls[j].v = stop) => j = k

(* the source yielded the stop time, it was returned, and the writer with *)
(* save_last_timestep was called again                                     *)
C4_Witness ==
    /\ save_last_timestep
    /\ \E k \in Calls : /\ calls[k].kind = "time"
                        /\ calls[k].via = "source"
                        /\ calls[k].v = stop
                        /\ k < Len(calls)

(* C5: a writer constructed with save_first_timestep true returns 0.0 on  *)
(* the first call that returns, whatever the source holds, and 0.0 is      *)
(* injected by at most one call.                                           *)
C5_FirstIsZero ==
    /\ arg_save_first_timestep =>
          \A k \in Calls :
              (/\ calls[k].kind \in {"time", "None"}
               /\ \A j \in 1..(k - 1) : calls[j].kind \notin {"time", "None"})
                  => (calls[k].kind = "time" /\ calls[k].v = 0)
    /\ Cardinality({k \in Calls : calls[k].via = "first"}) <= 1

(* the source starts with a value that is not zero, 0.0 was returned      *)
(* first and the source's value after it                                   *)
C5_Witness ==
    /\ arg_save_first_timestep
    /\ times_iter # None
    /\ Len(times_iter[1].items) >= 1
    /\ times_iter[1].items[1] = Fl(1)
    /\ Len(Returned) >= 2
    /\ Returned[1] = 0
    /\ Returned[2] = 1

(* the call that meets the regressions of FiveRegressions or              *)
(* SixRegressions: the one whose first pulled value is 0.9                *)
MeetsRegressions(c) == c.pulls # <<>> /\ c.pulls[1] = Fl(9)

(* C6 as stated: the source [1.0, 0.9, 0.8, 0.7, 0.6, 0.5] makes the call *)
(* that meets the five regressions raise RecursionError.                  *)
C6_FiveRegressionsRaise ==
    Registered(FiveRegressions) =>
        \A k \in Calls :
            MeetsRegressions(calls[k]) => calls[k].kind = "RecursionError"

(* C6 amended: six regressions after the accepted value                   *)
(* ([1.0, 0.9, 0.8, 0.7, 0.6, 0.5, 0.4]) make the call that meets them     *)
(* raise RecursionError on the sixth; with five regressions and then the  *)
(* end of the source the call raises nothing: it skips the five with a    *)
(* warning each and applies the forced-final-output rule (stop_time if    *)
(* save_last_timestep, else None).                                         *)
C6_SixRegressionsRaise ==
    /\ Registered(SixRegressions) =>
          \A k \in Calls :
              MeetsRegressions(calls[k]) =>
                  /\ calls[k].kind = "RecursionError"
                  /\ calls[k].pulls = SubSeq(SixRegressions, 2, 7)
    /\ Registered(FiveRegressions) =>
          \A k \in Calls :
              MeetsRegressions(calls[k]) =>
                  /\ calls[k].pulls
                        = SubSeq(FiveRegressions, 2, 6) \o <<NoneItem>>
                  /\ Len(calls[k].warns) = 5
                  /\ IF save_last_timestep
                     THEN calls[k].kind = "time" /\ calls[k].v = stop
                     ELSE calls[k].kind = "None"

(* the call that met the six regressions has raised *)
C6_Witness ==
    /\ Registered(SixRegressions)
    /\ \E k \in Calls : /\ MeetsRegressions(calls[k])
                        /\ calls[k].kind = "RecursionError"
                        /\ calls[k].prev = Some(10)

(* the iterator a call started with would yield six floats in a row that  *)
(* are each <= the previous output time of that call                      *)
SixSkipsAhead(c) ==
    /\ c.it0 # None
    /\ c.prev # None
    /\ \A i \in 1..(RecursionLimit + 1) :
          LET x == Yields(c.it0[1], RecursionLimit + 1)[i]
          IN x.kind = "float" /\ x.v <= c.prev[1]

(* C7: a call that pulls from a source about to yield more than 5         *)
(* consecutive values <= prev_output_time raises RecursionError on the     *)
(* sixth of them, having pulled exactly those six; no call pulls more      *)
(* than six values, and no call returns a time <= prev_output_time.        *)
C7_TooManySkipsRaise ==
    \A k \in Calls :
        /\ (calls[k].pulls # <<>> /\ SixSkipsAhead(calls[k])) =>
              /\ calls[k].kind = "RecursionError"
              /\ calls[k].pulls = Yields(calls[k].it0[1], RecursionLimit + 1)
        /\ Len(calls[k].pulls) <= RecursionLimit + 1
        /\ (calls[k].kind = "time" /\ calls[k].prev # None) =>
              calls[k].v > calls[k].prev[1]

(* an infinite source repeating an accepted value made a call raise *)
C7_Witness ==
    \E k \in Calls : /\ calls[k].pulls # <<>>
                     /\ SixSkipsAhead(calls[k])
                     /\ calls[k].it0[1].cyclic
                     /\ calls[k].kind = "RecursionError"

HasReturnedNone == \E k \in Calls : calls[k].kind = "None"

(* C8: once advance_iter has returned None every later call returns None, *)
(* raises nothing, pulls nothing from the source, warns nothing, and       *)
(* leaves next_output_time, prev_output_time, the exhausted flag, the      *)
(* save_first flag and the iterator as they were.                          *)
C8_ExhaustionIdempotent ==
    /\ [](\A i, j \in Calls :
            (i < j /\ calls[i].kind = "None") =>
                /\ calls[j].kind = "None"
                /\ calls[j].pulls = <<>>
                /\ calls[j].warns = <<>>)
    /\ [][HasReturnedNone =>
            UNCHANGED <<next_output_time, prev_output_time, is_exhausted,
                        save_first_timestep, times_iter>>]_vars

(* an exhausted writer whose source still holds values was called twice   *)
(* more                                                                    *)
C8_Witness ==
    /\ Len(calls) >= 3
    /\ calls[Len(calls) - 2].kind = "None"
    /\ calls[Len(calls) - 1].kind = "None"
    /\ Last(calls).kind = "None"
    /\ times_iter[1].pos <= Len(times_iter[1].items)

(* C9: a call that pulls a float greater than stop_time stops pulling     *)
(* there; with save_last_timestep it returns stop_time and the next call   *)
(* returns None, without it the call returns None and the writer is        *)
(* exhausted at once.  Source [100.0] with stop_time 10.0 (and no          *)
(* save_first_timestep) so yields [10.0] or nothing.                       *)
C9_OvershootClamp ==
    /\ \A k \in Calls :
          \A i \in 1..Len(calls[k].pulls) :
              (calls[k].pulls[i].kind = "float"
                  /\ calls[k].pulls[i].v > stop) =>
                  /\ i = Len(calls[k].pulls)
                  /\ IF save_last_timestep
                     THEN /\ calls[k].kind = "time"
                          /\ calls[k].v = stop
                          /\ k < Len(calls) =>
                                (calls[k + 1].kind = "None" /\ is_exhausted)
                     ELSE calls[k].kind = "None" /\ is_exhausted
    /\ (/\ Registered(OvershootSource)
        /\ stop = ExampleStop
        /\ ~arg_save_first_timestep) =>
          /\ IsPrefix(Returned, IF save_last_timestep THEN <<ExampleStop>>
                                ELSE <<>>)
          /\ is_exhausted =>
                Returned = IF save_last_timestep THEN <<ExampleStop>>
                           ELSE <<>>

(* source [100.0], stop_time 10.0, save_last_timestep: 10.0 was returned  *)
(* and the writer exhausted                                                *)
C9_Witness ==
    /\ Registered(OvershootSource)
    /\ stop = ExampleStop
    /\ save_last_timestep
    /\ ~arg_save_first_timestep
    /\ is_exhausted
    /\ Returned = <<ExampleStop>>

(* C10: a time returned from the source is the first value of the call    *)
(* that is greater than prev_output_time, every value pulled before it in  *)
(* the call being a float <= prev_output_time; so source                   *)
(* [1.0, 2.0, 1.5, 5.0] with stop_time 10.0 and neither override returns   *)
(* [1.0, 2.0, 5.0] and raises one skip warning, for 1.5 after 2.0.         *)
C10_SkipTolerance ==
    /\ \A k \in Calls :
          (calls[k].kind = "time" /\ calls[k].via = "source") =>
              /\ Last(calls[k].pulls) = Fl(calls[k].v)
              /\ calls[k].prev # None => calls[k].v > calls[k].prev[1]
              /\ \A i \in 1..(Len(calls[k].pulls) - 1) :
                    /\ calls[k].pulls[i].kind = "float"
                    /\ calls[k].prev # None
                    /\ calls[k].pulls[i].v <= calls[k].prev[1]
    /\ (/\ Registered(SkipSource)
        /\ stop = ExampleStop
        /\ ~arg_save_first_timestep
        /\ ~save_last_timestep) =>
          /\ IsPrefix(Returned, <<10, 20, 50>>)
          /\ Len(Returned) = 3 => AllWarns = <<GetMessage(15, 20)>>
          /\ is_exhausted => Returned = <<10, 20, 50>>

(* the source [1.0, 2.0, 1.5, 5.0] was run to exhaustion *)
C10_Witness ==
    /\ Registered(SkipSource)
    /\ stop = ExampleStop
    /\ ~arg_save_first_timestep
    /\ ~save_last_timestep
    /\ is_exhausted
    /\ Returned = <<10, 20, 50>>
    /\ Len(AllWarns) = 1

Errors == {"RecursionError", "AssertionError"}

(* C11: next_output_time is None or <= stop_time in every reachable       *)
(* state, for every stop_time and both settings of each flag.             *)
C11_NextWithinStop ==
    next_output_time # None => next_output_time[1] <= stop

(* C12 as stated: whenever both are defined, next_output_time is          *)
(* >= prev_output_time and strictly greater unless both are zero, also    *)
(* after a call that raised.                                              *)
C12_NextAbovePrev ==
    (next_output_time # None /\ prev_output_time # None) =>
        \/ next_output_time[1] > prev_output_time[1]
        \/ next_output_time[1] = 0 /\ prev_output_time[1] = 0

(* the last call raised inside the resolution step *)
LastCallRaisedResolving ==
    /\ calls # <<>>
    /\ Last(calls).kind \in Errors
    /\ Last(calls).via \in {"float", "skips"}

(* C12 amended: whenever both are defined, next_output_time is            *)
(* >= prev_output_time; it is strictly greater unless the last            *)
(* advance_iter call raised inside the resolution step (RecursionError or *)
(* the non-float assertion), after which the two are equal because the    *)
(* pending time was committed before the error.                           *)
C12_NextNotBelowPrev ==
    (next_output_time # None /\ prev_output_time # None) =>
        /\ next_output_time[1] >= prev_output_time[1]
        /\ next_output_time[1] = prev_output_time[1]
              <=> LastCallRaisedResolving

(* a call raised with a non-zero time pending, and both times are that    *)
(* time                                                                    *)
C12_Witness ==
    /\ LastCallRaisedResolving
    /\ next_output_time # None
    /\ next_output_time = prev_output_time
    /\ next_output_time[1] > 0

(* C13: prev_output_time is None or <= stop_time in every reachable       *)
(* state.                                                                  *)
C13_PrevWithinStop ==
    prev_output_time # None => prev_output_time[1] <= stop

(* the stop time itself was committed as the previous output time after   *)
(* an earlier time                                                         *)
C13_Witness ==
    /\ prev_output_time = Some(stop)
    /\ \E k \in Calls : calls[k].prev0 # None /\ calls[k].prev = Some(stop)

(* C14: under any sequence of public operations, an exhausted writer      *)
(* reads next_output_time None, and no operation (registering a new times *)
(* source included) makes an exhausted writer not exhausted or gives it a *)
(* next_output_time.                                                       *)
C14_ExhaustedForever ==
    /\ [](is_exhausted => next_output_time = None)
    /\ [][is_exhausted =>
            (is_exhausted' /\ next_output_time' = None)]_vars

(* an exhausted writer was given a new, unused source holding a value,    *)
(* advance_iter was called on it, and a file was registered               *)
C14_Witness ==
    /\ is_exhausted
    /\ registrations >= 2
    /\ output_filepaths # <<>>
    /\ Last(calls).via = "exhausted"
    /\ Last(calls).it0 # calls[1].it0
    /\ Last(calls).it0[1].items # <<>>
    /\ Last(calls).it0[1].pos = 1

(* C15 as stated: next_output_time is None if and only if the writer is   *)
(* exhausted, in every reachable state.                                    *)
C15_NoneIffExhausted ==
    (next_output_time = None) <=> is_exhausted

(* C15 amended: next_output_time is None if and only if the writer is     *)
(* exhausted or no advance_iter call has returned yet (the writer is      *)
(* fresh, registered but not advanced, or every call so far raised); and  *)
(* after a call returned None no later call returns a time.               *)
C15_NoneIffExhaustedOrNotStarted ==
    /\ (next_output_time = None) <=>
          (is_exhausted \/ \A k \in Calls : calls[k].kind \in Errors)
    /\ is_exhausted <=> \E k \in Calls : calls[k].kind = "None"
    /\ \A i, j \in Calls :
          (i < j /\ calls[i].kind = "None") => calls[j].kind # "time"

(* a writer returned times, then None, and was called again *)
C15_Witness ==
    /\ is_exhausted
    /\ next_output_time = None
    /\ Len(Returned) >= 2
    /\ Len(calls) >= 2
    /\ calls[Len(calls) - 1].kind = "None"

(* C16: under the driver protocol run_one_step is invoked at most once    *)
(* for each next_output_time value of the writer.                          *)
C16_OncePerOutputTime ==
    \A i, j \in 1..Len(ran) : i # j => ran[i] # ran[j]

(* run_one_step ran at three output times, one of them found after the    *)
(* source repeated an earlier time                                         *)
C16_Witness ==
    /\ Len(ran) >= 3
    /\ \E k \in Calls : /\ Len(calls[k].pulls) >= 2
                        /\ calls[k].pulls[1].kind = "float"
                        /\ calls[k].pulls[1].v \in {ran[i] : i \in 1..Len(ran)}

(* C17: advance_iter on a writer with no registered times source raises   *)
(* AssertionError (never RecursionError), pulls nothing, and leaves       *)
(* next_output_time, prev_output_time, the exhausted flag and the         *)
(* save_first flag as they were.                                           *)
C17_UnregisteredFails ==
    /\ [](\A k \in Calls :
            calls[k].it0 = None =>
                /\ calls[k].kind = "AssertionError"
                /\ calls[k].via = "unregistered"
                /\ calls[k].pulls = <<>>
                /\ calls[k].prev = calls[k].prev0)
    /\ [][(times_iter = None /\ calls' # calls) =>
            UNCHANGED <<next_output_time, prev_output_time, is_exhausted,
                        save_first_timestep, times_iter>>]_vars

(* a writer asked to save the first timestep was advanced twice before    *)
(* any source was registered                                               *)
C17_Witness ==
    /\ times_iter = None
    /\ arg_save_first_timestep
    /\ save_first_timestep
    /\ Len(calls) >= 2
    /\ Last(calls).kind = "AssertionError"
    /\ next_output_time = None

(* C18: a call that pulls a value that is not a float (and not None)      *)
(* stops there and raises AssertionError: the value is not returned, not  *)
(* replaced by stop_time, not skipped, and next_output_time keeps its      *)
(* value.                                                                  *)
C18_NonFloatFails ==
    /\ \A k \in Calls :
          \A i \in 1..Len(calls[k].pulls) :
              calls[k].pulls[i].kind = "int" =>
                  /\ i = Len(calls[k].pulls)
                  /\ calls[k].kind = "AssertionError"
                  /\ calls[k].via = "float"
    /\ (calls # <<>> /\ Last(calls).via = "float") =>
          (next_output_time = Last(calls).pending /\ ~is_exhausted)

(* a non-float that is within the stop time and not above the previous    *)
(* output time was pulled after a skipped float, and the call raised      *)
C18_Witness ==
    \E k \in Calls :
        /\ calls[k].kind = "AssertionError"
        /\ Len(calls[k].pulls) >= 2
        /\ Last(calls[k].pulls) = IntVal(1)
        /\ calls[k].prev # None
        /\ calls[k].prev[1] >= 1
        /\ stop >= 1

(* the warnings a call owes: one for each value it pulled and retried     *)
(* after, in order, unless that value and the previous output time are    *)
(* both zero                                                               *)
OwedWarns(c) ==
    LET retried == SubSeq(c.pulls, 1, Len(c.pulls) - 1)
        noisy == SelectSeq(retried,
                           LAMBDA x : ~(x.v = 0 /\ c.prev[1] = 0))
    IN [i \in 1..Len(noisy) |-> GetMessage(noisy[i].v, c.prev[1])]

(* C19: every call raises exactly one OutputIteratorSkipWarning for each  *)
(* value it skipped and retried after, with the skipped time and the      *)
(* previous output time in the message, and none for a skipped zero when  *)
(* the previous output time is zero.                                       *)
C19_OneWarningPerSkip ==
    \A k \in Calls :
        /\ calls[k].warns = OwedWarns(calls[k])
        /\ \A i \in 1..(Len(calls[k].pulls) - 1) :
              /\ calls[k].pulls[i].kind = "float"
              /\ calls[k].prev # None
              /\ calls[k].pulls[i].v <= calls[k].prev[1]

(* one call skipped a zero after a zero without a warning, and another    *)
(* call skipped two values with a warning each                             *)
C19_Witness ==
    /\ \E k \in Calls : /\ Len(calls[k].pulls) >= 2
                        /\ calls[k].prev = Some(0)
                        /\ calls[k].warns = <<>>
    /\ \E k \in Calls : /\ Len(calls[k].warns) >= 2
                        /\ calls[k].warns[1] # calls[k].warns[2]

(* a call that passed the registration and exhaustion checks with a       *)
(* pending time that is not beyond the stop time                           *)
Commits(c) ==
    /\ c.pending # None
    /\ c.via \notin {"unregistered", "exhausted"}
    /\ ~(c.kind = "AssertionError" /\ c.via = "stop")

(* C20 as stated: a call whose pending next_output_time equals stop_time  *)
(* leaves prev_output_time as it was.                                      *)
C20_PrevKeptAtStop ==
    \A k \in Calls :
        (Commits(calls[k]) /\ calls[k].pending = Some(stop)) =>
            calls[k].prev = calls[k].prev0

(* C20 amended: advance_iter commits every pending next_output_time into  *)
(* prev_output_time, the one equal to stop_time included: then            *)
(* prev_output_time becomes stop_time and the call returns None without   *)
(* pulling from the source.  Only a call that fails its entry checks, or  *)
(* sees the writer exhausted or nothing pending, leaves prev_output_time  *)
(* as it was.                                                              *)
C20_PendingAlwaysCommitted ==
    \A k \in Calls :
        /\ Commits(calls[k]) => calls[k].prev = calls[k].pending
        /\ ~Commits(calls[k]) => calls[k].prev = calls[k].prev0
        /\ (Commits(calls[k]) /\ calls[k].pending = Some(stop)) =>
              /\ calls[k].prev = Some(stop)
              /\ calls[k].kind = "None"
              /\ calls[k].pulls = <<>>

(* the stop time was pending after an earlier, smaller output time and    *)
(* the next call made it the previous output time                          *)
C20_Witness ==
    \E k \in Calls :
        /\ calls[k].pending = Some(stop)
        /\ calls[k].prev0 # None
        /\ calls[k].prev0[1] < stop
        /\ calls[k].prev = Some(stop)
        /\ calls[k].via = "stop"

(* C21: prev_output_time never decreases and never goes back to None, and *)
(* whenever it is defined it is a time advance_iter has returned.          *)
C21_PrevNeverDecreases ==
    /\ [][prev_output_time # None =>
            /\ prev_output_time' # None
            /\ prev_output_time'[1] >= prev_output_time[1]]_vars
    /\ [](prev_output_time # None =>
            \E k \in Calls : /\ calls[k].kind = "time"
                             /\ calls[k].v = prev_output_time[1])

(* prev_output_time was set, and later raised past a value the source     *)
(* yielded in between and that was skipped                                 *)
C21_Witness ==
    \E k \in Calls :
        /\ calls[k].prev0 # None
        /\ calls[k].prev # None
        /\ calls[k].prev[1] > calls[k].prev0[1]
        /\ Len(calls[k].pulls) >= 2

(* C22: a step that is not an advance_iter call (a read of either time,   *)
(* register_times_iter, run_one_step or a file-registry operation) leaves *)
(* next_output_time, prev_output_time, the exhausted flag and the         *)
(* save_first flag unchanged and pulls nothing: the times source is as it *)
(* was, or is the newly registered one with nothing taken from it.         *)
C22_OnlyAdvanceIterChanges ==
    [][calls' = calls =>
          /\ UNCHANGED <<next_output_time, prev_output_time, is_exhausted,
                         save_first_timestep>>
          /\ times_iter' # times_iter =>
                /\ registrations' = registrations + 1
                /\ times_iter'[1].pos = 1]_vars

(* a writer with a pending and a previous output time and a registered    *)
(* file was given another source, from which nothing has been pulled      *)
C22_Witness ==
    /\ next_output_time # None
    /\ prev_output_time # None
    /\ output_filepaths # <<>>
    /\ registrations >= 2
    /\ times_iter[1].pos = 1
    /\ times_iter[1].items # <<>>
    /\ times_iter[1].items # Last(calls).it0[1].items

(* C23: every advance_iter call on a registered writer pulls from the     *)
(* same times source, the one registered first, and that is the source    *)
(* the writer holds.                                                       *)
C23_SourceNeverReplaced ==
    \A k \in Calls :
        calls[k].it0 # None =>
            /\ calls[k].it0[1].items = times_iter[1].items
            /\ calls[k].it0[1].cyclic = times_iter[1].cyclic

NoDuplicates(s) == \A i, j \in 1..Len(s) : i # j => s[i] # s[j]

(* C24: the registry never holds a path twice; registering a registered   *)
(* path leaves it unchanged and registering a new path appends it at the  *)
(* end.                                                                    *)
C24_RegistryNoDuplicates ==
    /\ [](NoDuplicates(output_filepaths))
    /\ [][\A f \in Paths :
            RegisterOutputFilepath(f) =>
                IF \E i \in 1..Len(output_filepaths) : output_filepaths[i] = f
                THEN UNCHANGED output_filepaths
                ELSE output_filepaths' = Append(output_filepaths, f)]_vars

(* both paths are registered, ".nc" before "a.nc" *)
C24_Witness ==
    output_filepaths = <<(<<".", "n", "c">>), <<"a", ".", "n", "c">>>>

(* C25: after any delete_output_files calls, whatever os.remove did to    *)
(* each file, no file that a call removed from the disk is still in the   *)
(* registry: a failure on one file does not keep the successfully         *)
(* deleted ones registered.                                                *)
C25_DeleteBestEffort ==
    \A f \in removed : ~is_file_registered(f)

(* the extension of each path of Paths, as os.path.splitext gives it *)
ExtOf(f) == IF f = <<"a", ".", "n", "c">> THEN <<"n", "c">> ELSE <<>>

(* C26: get_output_filepaths(only_extension) is, in registry order, the   *)
(* registered paths whose extension is the filter (all of them for None); *)
(* the call and a later change of the list it returned leave the registry *)
(* unchanged.                                                              *)
C26_FilteredCopy ==
    /\ [](\A e \in Extensions :
            get_output_filepaths(e) =
                SelectSeq(output_filepaths,
                          LAMBDA f : e = None \/ ExtOf(f) = e[1]))
    /\ [][((\E e \in Extensions : GetOutputFilepaths(e))
              \/ (\E e \in Extensions, f \in Paths :
                     ChangeReturnedList(e, f)))
            => UNCHANGED output_filepaths]_vars

(* with both paths registered each extension filter selects one of them *)
C26_Witness ==
    /\ Len(output_filepaths) = 2
    /\ get_output_filepaths(Some(<<"n", "c">>)) = <<(<<"a", ".", "n", "c">>)>>
    /\ get_output_filepaths(Some(<<>>)) = <<(<<".", "n", "c">>)>>
    /\ get_output_filepaths(None) = output_filepaths

(* C27: the writers constructed in one process have ids that increase     *)
(* strictly in construction order, whatever their classes; so no two are  *)
(* equal.                                                                  *)
C27_IdsIncrease ==
    \A i, j \in 1..Len(writers) : i < j => writers[i].id < writers[j].id

(* a writer of each class was constructed *)
C27_Witness ==
    /\ Len(writers) = 3
    /\ {writers[i].cls : i \in 1..3} = WriterClasses

(* C28: an adapter has forwarded exactly one call for each run_one_step   *)
(* call made on it: the class adapter to the one instance of ow_class     *)
(* made at construction, the function adapter to ow_function with the     *)
(* model; and such a call leaves the scheduler and the file registry      *)
(* unchanged.                                                              *)
C28_AdapterForwardsOnce ==
    /\ [](LET w == writers[1]
          IN /\ Len(w.forwarded) = w.runs
             /\ \A i \in 1..Len(w.forwarded) :
                   IF w.cls = "StaticIntervalOutputClassAdapter"
                   THEN /\ w.instances = 1
                        /\ w.forwarded[i] = [to |-> "ow_class instance",
                                             n |-> 1, args |-> <<>>]
                   ELSE w.forwarded[i] = [to |-> "ow_function",
                                          args |-> <<"model">>])
    /\ [][writers' # writers =>
            UNCHANGED <<scheduler, files>>]_vars

(* run_one_step was called twice on a class adapter that has a pending    *)
(* and a previous output time                                              *)
C28_Witness ==
    /\ writers[1].cls = "StaticIntervalOutputClassAdapter"
    /\ writers[1].runs = 2
    /\ next_output_time # None
    /\ prev_output_time # None

(* the reference: the source values up to the first one beyond stop_time, *)
(* without those that do not pass the last emitted value, ending at a     *)
(* value equal to stop_time                                                *)
RECURSIVE RefTake(_, _, _)
RefTake(items, emitted, stop_time) ==
    IF items = <<>> THEN emitted
    ELSE LET x == Head(items).v
         IN IF x > stop_time THEN emitted
            ELSE IF emitted # <<>> /\ x <= Last(emitted)
            THEN RefTake(Tail(items), emitted, stop_time)
            ELSE IF x = stop_time THEN Append(emitted, x)
            ELSE RefTake(Tail(items), Append(emitted, x), stop_time)

Reference(items, save_first, save_last, stop_time) ==
    LET taken == RefTake(items, IF save_first THEN <<0>> ELSE <<>>,
                         stop_time)
    IN IF save_last /\ (taken = <<>> \/ Last(taken) < stop_time)
       THEN Append(taken, stop_time)
       ELSE taken

FiniteFloats(it) ==
    /\ ~it.cyclic
    /\ \A i \in 1..Len(it.items) : it.items[i].kind = "float"

(* C29: for a finite source of floats, stop_time >= 0 and no call that    *)
(* met more than 5 skips, the times returned so far are a prefix of the   *)
(* reference sequence, and all of it once None has been returned.          *)
C29_MatchesReference ==
    (/\ times_iter # None
     /\ FiniteFloats(times_iter[1])
     /\ stop >= 0
     /\ \A k \in Calls : calls[k].kind # "RecursionError") =>
        LET ref == Reference(times_iter[1].items, arg_save_first_timestep,
                             save_last_timestep, stop)
        IN /\ IsPrefix(Returned, ref)
           /\ is_exhausted => Returned = ref

(* a finite source was run to exhaustion with both overrides: 0.0 first,  *)
(* a source value, a skipped value, and the stop time last                *)
C29_Witness ==
    /\ times_iter # None
    /\ FiniteFloats(times_iter[1])
    /\ stop >= 1
    /\ arg_save_first_timestep
    /\ save_last_timestep
    /\ is_exhausted
    /\ Len(Returned) >= 3
    /\ \E k \in Calls : calls[k].via = "forced" /\ Len(calls[k].pulls) >= 2

(* the pulls of a call that are floats not above its previous output time *)
SkipPulls(c) ==
    {i \in 1..Len(c.pulls) : /\ c.pulls[i].kind = "float"
                             /\ c.prev # None
                             /\ c.pulls[i].v <= c.prev[1]
                             /\ c.pulls[i].v <= stop}

(* C30: a call pulls at most 6 values, and raises RecursionError exactly  *)
(* when it pulled 6 and all 6 were skips: 5 skips in one call are          *)
(* tolerated and what earlier calls skipped does not count.                *)
C30_BudgetPerCall ==
    \A k \in Calls :
        /\ Len(calls[k].pulls) <= RecursionLimit + 1
        /\ calls[k].kind = "RecursionError" <=>
              SkipPulls(calls[k]) = 1..(RecursionLimit + 1)

(* two calls skipped three values each, six in all, and both returned a   *)
(* time                                                                     *)
C30_Witness ==
    \E j, k \in Calls :
        /\ j < k
        /\ calls[j].kind = "time" /\ Len(calls[j].pulls) = 4
        /\ calls[k].kind = "time" /\ Len(calls[k].pulls) = 4

(* the calls made on a registered writer, in order *)
RegCalls == SelectSeq(calls, LAMBDA c : c.it0 # None)

(* what C31 says of the calls that pull nothing; the last conjunct, that  *)
(* the call after the 0.0 of save_first_timestep pulls the value the      *)
(* source yields first, is required when delivers holds                   *)
PullsNothing(delivers) ==
    /\ \A k \in 1..Len(RegCalls) :
          LET c == RegCalls[k]
          IN /\ c.via = "exhausted" => (c.pulls = <<>> /\ c.kind = "None")
             /\ (Commits(c) /\ c.pending = Some(stop)) =>
                   (c.pulls = <<>> /\ c.kind = "None" /\ is_exhausted)
             /\ (k = 1 /\ arg_save_first_timestep) =>
                   (c.via = "first" /\ c.kind = "time" /\ c.v = 0
                      /\ c.pulls = <<>>)
             /\ c.via = "first" => k = 1
    /\ (arg_save_first_timestep /\ Len(RegCalls) >= 2 /\ delivers) =>
          /\ RegCalls[2].pulls # <<>>
          /\ RegCalls[2].pulls[1] = IterNext(RegCalls[1].it0[1]).item

(* C31 as stated: advance_iter pulls nothing when the writer is           *)
(* exhausted, when the pending time equals stop_time, and on the first    *)
(* call with save_first_timestep; the second call of such a writer pulls  *)
(* the source's first value (checked for every stop_time >= 0).           *)
C31_NoPullCases == PullsNothing(stop >= 0)

(* C31 amended: the same three cases pull nothing; the second call of a   *)
(* writer with save_first_timestep pulls the source's first value when    *)
(* stop_time > 0; when stop_time is 0.0 the pending 0.0 equals stop_time  *)
(* and the second call returns None without pulling, and when stop_time   *)
(* is negative it fails the assertion on the pending time without         *)
(* pulling.                                                                *)
C31_NoPullCasesPositiveStop ==
    /\ PullsNothing(stop > 0)
    /\ (arg_save_first_timestep /\ Len(RegCalls) >= 2 /\ stop <= 0) =>
          /\ RegCalls[2].pulls = <<>>
          /\ RegCalls[2].via = "stop"
          /\ RegCalls[2].kind = IF stop = 0 THEN "None" ELSE "AssertionError"

(* after the 0.0 of save_first_timestep the second call returned the     *)
(* source's first value, the third found the stop time pending and the    *)
(* fourth found the writer exhausted                                       *)
C31_Witness ==
    /\ arg_save_first_timestep
    /\ Len(RegCalls) >= 4
    /\ RegCalls[2].kind = "time"
    /\ RegCalls[2].via = "source"
    /\ RegCalls[2].v = stop
    /\ RegCalls[3].via = "stop"
    /\ RegCalls[4].via = "exhausted"
    /\ times_iter[1].pos <= Len(times_iter[1].items)

(* C32: a value greater than stop_time is the last value a writer pulls:  *)
(* the call that pulled it stops there and no later call pulls anything,  *)
(* so nothing the source would yield afterwards is returned; the only     *)
(* time returned at or after that call is stop_time itself, by that call. *)
C32_NothingAfterOvershoot ==
    \A k \in Calls :
        \A i \in 1..Len(calls[k].pulls) :
            (calls[k].pulls[i].kind = "float" /\ calls[k].pulls[i].v > stop)
                => /\ i = Len(calls[k].pulls)
                   /\ calls[k].kind = "time" =>
                         (calls[k].via = "forced" /\ calls[k].v = stop)
                   /\ \A j \in (k + 1)..Len(calls) :
                         /\ calls[j].pulls = <<>>
                         /\ calls[j].kind # "time"

(* the source yielded a value beyond the stop time and holds a value      *)
(* within it next; two more calls were made                                *)
C32_Witness ==
    \E k \in Calls :
        /\ k + 2 <= Len(calls)
        /\ calls[k].pulls # <<>>
        /\ Last(calls[k].pulls).kind = "float"
        /\ Last(calls[k].pulls).v > stop
        /\ calls[k].kind = "time"
        /\ LET x == IterNext(times_iter[1]).item
           IN x.kind = "float" /\ x.v <= stop

(* C33: in an exhausted writer prev_output_time is the last time          *)
(* advance_iter returned, or None if it returned none.                     *)
C33_PrevIsLastReturned ==
    is_exhausted =>
        prev_output_time = IF Returned = <<>> THEN None
                           ELSE Some(Last(Returned))

(* a writer returned two times, exhausted and was called again *)
C33_Witness ==
    /\ is_exhausted
    /\ Len(Returned) >= 2
    /\ Last(calls).via = "exhausted"
    /\ prev_output_time = Some(Last(Returned))

(* save_first_timestep was asked for and the source yields 0.0 first *)
ZeroFirst ==
    /\ arg_save_first_timestep
    /\ Len(RegCalls) >= 1
    /\ IterNext(RegCalls[1].it0[1]).item = Fl(0)

(* the value a source would yield after its first i values *)
YieldAt(it, i) == Yields(it, i)[i]

(* what C34 says of a writer with ZeroFirst: 0.0 is returned once; when   *)
(* applies holds the second call pulls the source's 0.0 first and warns   *)
(* of none of its zeros, and if the next value greater than 0.0 comes     *)
(* after at most RecursionLimit values and inrange holds of it, the call  *)
(* returns it                                                              *)
ZeroOnce(applies, inrange(_)) ==
    ZeroFirst =>
        /\ Cardinality({k \in 1..Len(Returned) : Returned[k] = 0}) = 1
        /\ (Len(RegCalls) >= 2 /\ applies) =>
              LET c == RegCalls[2]
                  it == RegCalls[1].it0[1]
              IN /\ c.pulls # <<>>
                 /\ c.pulls[1] = Fl(0)
                 /\ c.warns = <<>>
                 /\ \A i \in 2..(RecursionLimit + 1) :
                       (/\ \A j \in 1..(i - 1) : YieldAt(it, j) = Fl(0)
                        /\ YieldAt(it, i).kind = "float"
                        /\ YieldAt(it, i).v > 0
                        /\ inrange(YieldAt(it, i).v))
                           => (c.kind = "time" /\ c.v = YieldAt(it, i).v
                                 /\ Len(c.pulls) = i)
                 /\ (\A j \in 1..(RecursionLimit + 1) :
                        YieldAt(it, j) = Fl(0))
                       => c.kind = "RecursionError"

Always(v) == TRUE
WithinStop(v) == v <= stop

(* C34 as stated: with save_first_timestep and a source that yields 0.0   *)
(* first, 0.0 is returned once, the second call skips the source's 0.0    *)
(* without a warning (it counts toward the 5 retries) and returns the     *)
(* next source value greater than 0.0 (checked for every stop_time >= 0). *)
C34_ZeroOnce == ZeroOnce(stop >= 0, Always)

(* C34 amended: 0.0 is returned once; when stop_time > 0 the second call  *)
(* skips the source's 0.0 without a warning (it counts toward the 5       *)
(* retries) and returns the next source value greater than 0.0 if that    *)
(* value is within stop_time, and raises RecursionError if the source     *)
(* yields six zeros in a row.                                              *)
C34_ZeroOnceWithinStop == ZeroOnce(stop > 0, WithinStop)

(* after 0.0 the second call skipped the source's 0.0 silently and        *)
(* returned the source's next value                                        *)
C34_Witness ==
    /\ ZeroFirst
    /\ Len(RegCalls) >= 2
    /\ RegCalls[2].pulls = <<Fl(0), Fl(1)>>
    /\ RegCalls[2].warns = <<>>
    /\ RegCalls[2].kind = "time"
    /\ RegCalls[2].v = 1

(* a call that raised in the resolution step with a time pending *)
RaisedPending(c) ==
    /\ c.kind \in Errors
    /\ c.via \in {"float", "skips"}
    /\ c.pending # None

(* C35: after a call raised in the resolution step with a time t pending, *)
(* prev_output_time is t, next_output_time is still t and the writer is   *)
(* not exhausted; the next call pulls again, from where the source was    *)
(* left, and raises RecursionError only on a sixth skip of its own.        *)
C35_ErrorNotTerminal ==
    \A k \in Calls :
        RaisedPending(calls[k]) =>
            /\ calls[k].prev = calls[k].pending
            /\ k = Len(calls) =>
                  /\ next_output_time = calls[k].pending
                  /\ prev_output_time = calls[k].pending
                  /\ ~is_exhausted
            /\ k < Len(calls) =>
                  LET c == calls[k + 1]
                  IN /\ c.pending = calls[k].pending
                     /\ c.pulls # <<>>
                     /\ c.it0[1].items = calls[k].it0[1].items
                     /\ c.pulls[1] = IterNext(c.it0[1]).item
                     /\ c.kind = "RecursionError" <=>
                           SkipPulls(c) = 1..(RecursionLimit + 1)

(* a call raised RecursionError and the call after it skipped three       *)
(* values and returned a time                                              *)
C35_Witness ==
    \E k \in Calls :
        /\ k < Len(calls)
        /\ RaisedPending(calls[k])
        /\ calls[k].kind = "RecursionError"
        /\ calls[k + 1].kind = "time"
        /\ Len(calls[k + 1].pulls) = 4

(* C36: a None yielded by the source is the last value a writer pulls:    *)
(* the call returns stop_time if save_last_timestep is set and the        *)
(* previous output time is absent or below stop_time, and None            *)
(* otherwise, and no later call pulls or returns a time taken from the    *)
(* source.                                                                 *)
C36_NoneEndsSource ==
    \A k \in Calls :
        \A i \in 1..Len(calls[k].pulls) :
            calls[k].pulls[i] = NoneItem =>
                /\ i = Len(calls[k].pulls)
                /\ IF save_last_timestep
                      /\ (calls[k].prev = None \/ calls[k].prev[1] < stop)
                   THEN calls[k].kind = "time" /\ calls[k].v = stop
                   ELSE calls[k].kind = "None"
                /\ \A j \in (k + 1)..Len(calls) :
                      calls[j].pulls = <<>> /\ calls[j].kind # "time"

(* the source yielded None before a float within the stop time, the       *)
(* stop time was returned, and two more calls were made                    *)
C36_Witness ==
    /\ times_iter # None
    /\ Len(times_iter[1].items) = 2
    /\ times_iter[1].items[1] = NoneItem
    /\ times_iter[1].items[2].kind = "float"
    /\ times_iter[1].items[2].v <= stop
    /\ times_iter[1].items[2].v > 0
    /\ times_iter[1].pos = 2
    /\ Len(RegCalls) >= 3
    /\ Returned = <<stop>>

(* C37: with a finite source of n values, one of the first n + 3 calls on *)
(* the registered writer returns None or raises; and no call pulls more   *)
(* than 6 values.                                                          *)
C37_ForwardProgress ==
    /\ (times_iter # None /\ ~times_iter[1].cyclic
           /\ Len(RegCalls) >= Len(times_iter[1].items) + 3) =>
          \E k \in 1..(Len(times_iter[1].items) + 3) :
              RegCalls[k].kind # "time"
    /\ \A k \in Calls : Len(calls[k].pulls) <= RecursionLimit + 1

(* a source of two values gave four times (0.0, its two values, the stop  *)
(* time) and None on the fifth call                                        *)
C37_Witness ==
    /\ times_iter # None
    /\ ~times_iter[1].cyclic
    /\ Len(times_iter[1].items) = 2
    /\ Len(RegCalls) = 5
    /\ Len(Returned) = 4
    /\ RegCalls[5].kind = "None"

(* the matching registered files before the first one whose removal      *)
(* raises, and that first one if there is one                              *)
RECURSIVE RemovedBeforeError(_, _, _)
RemovedBeforeError(filepaths, e, outcome) ==
    IF filepaths = <<>> THEN {}
    ELSE IF ~Matches(Head(filepaths), e)
    THEN RemovedBeforeError(Tail(filepaths), e, outcome)
    ELSE IF outcome[Head(filepaths)] = "removed"
    THEN {Head(filepaths)} \cup RemovedBeforeError(Tail(filepaths), e, outcome)
    ELSE {}

MeetsError(e, outcome, error) ==
    \E i \in 1..Len(output_filepaths) :
        /\ Matches(output_filepaths[i], e)
        /\ outcome[output_filepaths[i]] = error

(* C38 as stated: a delete_output_files call in which the removal of a    *)
(* file raises FileNotFoundError leaves the registry as it was.            *)
C38_AbortKeepsRegistry ==
    [][\A e \in Extensions, windows \in BOOLEAN :
              \A outcome \in [Paths -> RemoveOutcomes] :
                  (MeetsError(e, outcome, "FileNotFoundError")
                      /\ DeleteOutputFiles(e, outcome, windows))
                      => UNCHANGED output_filepaths]_vars

(* C38 amended: off Windows a delete_output_files call in which a removal *)
(* raises any OSError (a missing file, a locked file) aborts: the         *)
(* registry is left as it was and still lists the files the call removed  *)
(* before the error.  On Windows every OSError is tolerated, a missing    *)
(* file included: the call goes on, the failing files stay registered and *)
(* the removed ones leave the registry.                                    *)
C38_AbortOffWindows ==
    [][\A e \in Extensions, windows \in BOOLEAN :
              \A outcome \in [Paths -> RemoveOutcomes] :
                  ((\E error \in OSErrors : MeetsError(e, outcome, error))
                      /\ DeleteOutputFiles(e, outcome, windows))
                      => IF windows
                         THEN output_filepaths' =
                                  SelectSeq(output_filepaths,
                                      LAMBDA f : \/ ~Matches(f, e)
                                                 \/ outcome[f] # "removed")
                         ELSE /\ UNCHANGED output_filepaths
                              /\ removed' = removed \cup
                                     RemovedBeforeError(output_filepaths, e,
                                                        outcome)]_vars

(* a file removed from the disk by a call that aborted is still           *)
(* registered, next to the file whose removal raised                       *)
C38_Witness ==
    /\ Len(output_filepaths) = 2
    /\ output_filepaths[1] \in removed
    /\ output_filepaths[2] \notin removed

====
